---- MODULE Spec2Model ----
(***************************************************************************)
(* Model of lodestone-centroid (src/src/lib.rs): the centroid of a         *)
(* FeaturePolygon, computed in f64 arithmetic from the first ring.         *)
(*                                                                         *)
(* The coordinates and the accumulators of the code are f64.  An f64 is    *)
(* modelled by its exact value  s * m * 2^e  (m an odd natural number of   *)
(* at most 53 bits, kept as a sequence of 15-bit limbs because the model   *)
(* checker's integers are 32 bits wide), and every arithmetic operation    *)
(* of the code is the exact operation followed by IEEE-754 rounding to     *)
(* nearest, ties to even.  The exponent range of f64 (-1074..1023) is      *)
(* never approached by the inputs of the model, so overflow and            *)
(* subnormals are not modelled.  The sign of a zero is not modelled: the   *)
(* accumulators start at +0.0 and a sum that starts at +0.0 is never       *)
(* -0.0, so the divisor of line 50 is never -0.0, and -0.0 == +0.0.        *)
(***************************************************************************)
EXTENDS Integers, Sequences, FiniteSets, TLC

----------------------------------------------------------------------------
(* Natural numbers of arbitrary size: little-endian limbs, no leading zero *)
(* limb, zero is the empty sequence.                                       *)

LimbBits == 15
Base == 32768

Pow2(k) == 2 ^ k

RECURSIVE BigTrim(_)
BigTrim(a) ==
  IF a = <<>> THEN <<>>
  ELSE IF a[Len(a)] = 0 THEN BigTrim(SubSeq(a, 1, Len(a) - 1))
  ELSE a

RECURSIVE BigFromNat(_)
BigFromNat(n) ==
  IF n = 0 THEN <<>> ELSE <<n % Base>> \o BigFromNat(n \div Base)

Limb(a, i) == IF i >= 1 /\ i <= Len(a) THEN a[i] ELSE 0

RECURSIVE BigAddC(_, _, _, _)
BigAddC(a, b, i, c) ==
  IF i > Len(a) /\ i > Len(b)
  THEN IF c = 0 THEN <<>> ELSE <<c>>
  ELSE LET x == Limb(a, i) + Limb(b, i) + c
       IN  <<x % Base>> \o BigAddC(a, b, i + 1, x \div Base)

BigAdd(a, b) == BigAddC(a, b, 1, 0)

\* a - b for a >= b
RECURSIVE BigSubC(_, _, _, _)
BigSubC(a, b, i, c) ==
  IF i > Len(a) THEN <<>>
  ELSE LET x == a[i] - Limb(b, i) - c
       IN  IF x < 0 THEN <<x + Base>> \o BigSubC(a, b, i + 1, 1)
           ELSE <<x>> \o BigSubC(a, b, i + 1, 0)

BigSub(a, b) == BigTrim(BigSubC(a, b, 1, 0))

\* -1, 0, 1 as a < b, a = b, a > b
RECURSIVE BigCmpAt(_, _, _)
BigCmpAt(a, b, i) ==
  IF i = 0 THEN 0
  ELSE IF a[i] < b[i] THEN -1
  ELSE IF a[i] > b[i] THEN 1
  ELSE BigCmpAt(a, b, i - 1)

BigCmp(a, b) ==
  IF Len(a) < Len(b) THEN -1
  ELSE IF Len(a) > Len(b) THEN 1
  ELSE BigCmpAt(a, b, Len(a))

RECURSIVE BigMulLimb(_, _, _, _)
BigMulLimb(a, d, i, c) ==
  IF i > Len(a) THEN (IF c = 0 THEN <<>> ELSE <<c>>)
  ELSE LET x == a[i] * d + c
       IN  <<x % Base>> \o BigMulLimb(a, d, i + 1, x \div Base)

\* a * d for one limb d
BigMulSmall(a, d) == BigTrim(BigMulLimb(a, d, 1, 0))

RECURSIVE BigMulAt(_, _, _)
BigMulAt(a, b, j) ==
  IF j > Len(b) THEN <<>>
  ELSE LET rest == BigMulAt(a, b, j + 1)
           hi   == IF rest = <<>> THEN <<>> ELSE <<0>> \o rest
       IN  BigAdd(BigMulLimb(a, b[j], 1, 0), hi)

BigMul(a, b) == IF a = <<>> \/ b = <<>> THEN <<>> ELSE BigTrim(BigMulAt(a, b, 1))

RECURSIVE SmallBitLen(_)
SmallBitLen(n) == IF n = 0 THEN 0 ELSE 1 + SmallBitLen(n \div 2)

BitLen(a) ==
  IF a = <<>> THEN 0 ELSE (Len(a) - 1) * LimbBits + SmallBitLen(a[Len(a)])

Bit(a, i) == (Limb(a, (i \div LimbBits) + 1) \div Pow2(i % LimbBits)) % 2

\* some bit below bit k is set
LowNonzero(a, k) ==
  \/ \E j \in 1..(k \div LimbBits) : Limb(a, j) # 0
  \/ Limb(a, (k \div LimbBits) + 1) % Pow2(k % LimbBits) # 0

\* floor(a / 2^k)
Shr(a, k) ==
  LET ld == k \div LimbBits
      kb == k % LimbBits
      n  == Len(a) - ld
  IN  IF n <= 0 THEN <<>>
      ELSE BigTrim([j \in 1..n |->
             (a[j + ld] \div Pow2(kb))
               + (Limb(a, j + ld + 1) % Pow2(kb)) * Pow2(LimbBits - kb)])

\* a * 2^k
Shl(a, k) ==
  LET ld == k \div LimbBits
      kb == k % LimbBits
      n  == Len(a) + ld + 1
  IN  IF a = <<>> THEN <<>>
      ELSE BigTrim([j \in 1..n |->
             (Limb(a, j - ld) % Pow2(LimbBits - kb)) * Pow2(kb)
               + (Limb(a, j - ld - 1) \div Pow2(LimbBits - kb))])

RECURSIVE SmallTrailingZeros(_)
SmallTrailingZeros(n) == IF n % 2 = 1 THEN 0 ELSE 1 + SmallTrailingZeros(n \div 2)

\* number of trailing zero bits of a # 0
RECURSIVE TrailingZerosAt(_, _)
TrailingZerosAt(a, i) ==
  IF a[i] = 0 THEN LimbBits + TrailingZerosAt(a, i + 1)
  ELSE SmallTrailingZeros(a[i])

TrailingZeros(a) == TrailingZerosAt(a, 1)

----------------------------------------------------------------------------
(* f64: k = "fin" with value s * m * 2^e (s in {-1, 0, 1}, m odd), or      *)
(* "inf" with sign s, or "nan".                                            *)

MantBits == 53

Zero == [k |-> "fin", s |-> 0, m |-> <<>>, e |-> 0]
NaN == [k |-> "nan", s |-> 0, m |-> <<>>, e |-> 0]
Inf(s) == [k |-> "inf", s |-> s, m |-> <<>>, e |-> 0]

\* the exact value s * m * 2^e, m # 0, in canonical form
Exact(s, m, e) ==
  LET tz == TrailingZeros(m)
  IN  [k |-> "fin", s |-> s, m |-> Shr(m, tz), e |-> e + tz]

\* s * m * 2^e (plus a non-zero amount below the last bit of m when sticky)
\* rounded to 53 significant bits, to nearest, ties to even
Round53(s, m, e, sticky) ==
  LET len == BitLen(m)
      sh  == len - MantBits
  IN  IF m = <<>> THEN Zero
      ELSE IF sh <= 0 THEN Exact(s, m, e)
      ELSE LET q  == Shr(m, sh)
               up == /\ Bit(m, sh - 1) = 1
                     /\ (LowNonzero(m, sh - 1) \/ sticky \/ Bit(m, sh) = 1)
           IN  Exact(s, IF up THEN BigAdd(q, <<1>>) ELSE q, e + sh)

FromInt(n) ==
  IF n = 0 THEN Zero
  ELSE IF n < 0 THEN Exact(-1, BigFromNat(-n), 0)
  ELSE Exact(1, BigFromNat(n), 0)

IsFinite(a) == a.k = "fin"

FNeg(a) == [a EXCEPT !.s = -a.s]

\* the exact product and the exact sum of two finite values: the mantissa
\* of the result is as long as it needs to be
XMul(a, b) ==
  IF a.s * b.s = 0 THEN Zero
  ELSE Exact(a.s * b.s, BigMul(a.m, b.m), a.e + b.e)

XAdd(a, b) ==
  IF a.s = 0 THEN b
  ELSE IF b.s = 0 THEN a
  ELSE LET e  == IF a.e < b.e THEN a.e ELSE b.e
           ma == Shl(a.m, a.e - e)
           mb == Shl(b.m, b.e - e)
           c  == BigCmp(ma, mb)
       IN  IF a.s = b.s THEN Exact(a.s, BigAdd(ma, mb), e)
           ELSE IF c = 0 THEN Zero
           ELSE IF c > 0 THEN Exact(a.s, BigSub(ma, mb), e)
           ELSE Exact(b.s, BigSub(mb, ma), e)

\* the f64 nearest to a finite exact value
Round(v) == Round53(v.s, v.m, v.e, FALSE)

\* f64 * f64
FMul(a, b) ==
  IF a.k = "nan" \/ b.k = "nan" THEN NaN
  ELSE IF a.k = "inf" \/ b.k = "inf"
       THEN IF a.s * b.s = 0 THEN NaN ELSE Inf(a.s * b.s)
  ELSE Round(XMul(a, b))

\* f64 + f64
FAdd(a, b) ==
  IF a.k = "nan" \/ b.k = "nan" THEN NaN
  ELSE IF a.k = "inf"
       THEN IF b.k = "inf" /\ b.s # a.s THEN NaN ELSE a
  ELSE IF b.k = "inf" THEN b
  ELSE Round(XAdd(a, b))

\* f64 - f64
FSub(a, b) == FAdd(a, FNeg(b))

\* the largest q with q * d <= r, at or below the estimate q
RECURSIVE FixDigit(_, _, _)
FixDigit(r, d, q) ==
  IF BigCmp(BigMulSmall(d, q), r) > 0 THEN FixDigit(r, d, q - 1) ELSE q

\* one digit of the long division of r (< d * Base) by d: the estimate from
\* the leading limbs of r and the leading limb of d is never too small
QuotDigit(r, d) ==
  LET top == Limb(r, Len(d) + 1) * Base + Limb(r, Len(d))
      est == top \div d[Len(d)]
  IN  FixDigit(r, d, IF est > Base - 1 THEN Base - 1 ELSE est)

\* long division of the limbs i, i-1, .., 1 of n by d, with the remainder r
\* and the quotient q of the limbs above i: <<quotient, remainder # 0>>
RECURSIVE DivLimbs(_, _, _, _, _)
DivLimbs(n, d, i, r, q) ==
  IF i = 0 THEN <<BigTrim(q), r # <<>>>>
  ELSE LET r1  == BigTrim(<<n[i]>> \o r)
           dig == QuotDigit(r1, d)
           r2  == BigSub(r1, BigMulSmall(d, dig))
       IN  IF Len(r2) >= 0 THEN DivLimbs(n, d, i - 1, r2, <<dig>> \o q)
           ELSE <<>>

\* the quotient of two finite exact values, rounded to the nearest f64: the
\* divisor is scaled to full limbs and the dividend to QuotLimbs limbs more,
\* which leaves a quotient of at least 59 bits and what is below it as sticky
QuotLimbs == 4

DivRound(a, b) ==
  IF b.s = 0
  THEN IF a.s = 0 THEN NaN ELSE Inf(a.s)
  ELSE IF a.s = 0 THEN Zero
  ELSE LET db == Len(b.m) * LimbBits - BitLen(b.m)
           wa == (Len(b.m) + QuotLimbs) * LimbBits - BitLen(a.m)
           da == IF wa > 0 THEN wa ELSE 0
           ma == Shl(a.m, da)
           mb == Shl(b.m, db)
           qr == DivLimbs(ma, mb, Len(ma), <<>>, <<>>)
       IN  Round53(a.s * b.s, qr[1], a.e - b.e - da + db, qr[2])

\* f64 / f64
FDiv(a, b) ==
  IF a.k = "nan" \/ b.k = "nan" THEN NaN
  ELSE IF a.k = "inf"
       THEN IF b.k = "inf" THEN NaN ELSE Inf(IF b.s < 0 THEN -a.s ELSE a.s)
  ELSE IF b.k = "inf" THEN Zero
  ELSE DivRound(a, b)

\* the == of f64: NaN is equal to nothing
FEq(a, b) == a.k # "nan" /\ b.k # "nan" /\ a = b

----------------------------------------------------------------------------
(* The polygon centroid, lib.rs lines 30 to 51.  A point is <<x, y>>       *)
(* (coord[0], coord[1] of the code), a ring a sequence of points, and      *)
(* coordinates() a sequence of rings.                                      *)

One == FromInt(1)
Two == FromInt(2)
Three == FromInt(3)

\* (a variant that reads the last ring)
LastRing(coords) == coords[Len(coords)]

\* line 36: self.coordinates().first()
FirstRing(coords) == coords[1]

\* (a variant that closes the ring itself)
LoopInputClosing(first) == Tail(first) \o <<Head(first)>>

\* line 37 and 39: what the loop iterates over once remove(0) took the
\* first point out
LoopInput(first) == Tail(first)

\* (a variant with the sum of the two products)
CrossSum(p, coord) == FAdd(FMul(coord[2], p[1]), FMul(p[2], coord[1]))

\* line 40: f
Cross(p, coord) == FSub(FMul(coord[2], p[1]), FMul(p[2], coord[1]))

\* (a variant that takes both coordinates from coord)
SumTermCurOnly(p, coord, f, i) == FMul(FAdd(coord[i], coord[i]), f)

\* line 42 and 43: the term added to x_sum (i = 1) and to y_sum (i = 2)
SumTerm(p, coord, f, i) == FMul(FAdd(coord[i], p[i]), f)

\* (variants with the weight 2.0, and with f + 3.0)
AreaTermDouble(f) == FMul(f, Two)
AreaTermPlus(f) == FAdd(f, Three)

\* line 44: the term added to area
AreaTerm(f) == FMul(f, Three)

\* lines 32 to 34 and 37: the accumulators before the loop
InitAcc(first) ==
  [area |-> Zero, x_sum |-> Zero, y_sum |-> Zero, prev |-> Head(first)]

\* lines 40 to 47: one iteration of the loop
Step(acc, coord) ==
  LET f == Cross(acc.prev, coord)
  IN  [area  |-> FAdd(acc.area, AreaTerm(f)),
       x_sum |-> FAdd(acc.x_sum, SumTerm(acc.prev, coord, f, 1)),
       y_sum |-> FAdd(acc.y_sum, SumTerm(acc.prev, coord, f, 2)),
       prev  |-> coord]

\* (a variant that guards the division)
DivideGuarded(sum, ar) == IF ar = Zero THEN Zero ELSE FDiv(sum, ar)

\* line 50: x_sum / area, y_sum / area
Divide(sum, ar) == FDiv(sum, ar)

Panicked == [st |-> "panic", p |-> <<NaN, NaN>>]
Returned(p) == [st |-> "point", p |-> p]
Running == [st |-> "none", p |-> <<NaN, NaN>>]

\* lines 39 to 48: the whole loop
RECURSIVE Loop(_, _)
Loop(acc, rest) ==
  IF rest = <<>> THEN acc
  ELSE Loop(Step(acc, Head(rest)), Tail(rest))

\* lines 32 to 48: the accumulators once the loop is through the ring
SumsOf(first) == Loop(InitAcc(first), LoopInput(first))

\* line 50: the point returned
Finish(acc) ==
  Returned(<<Divide(acc.x_sum, acc.area), Divide(acc.y_sum, acc.area)>>)

\* centroid() as a function of coordinates()
Centroid(coords) ==
  IF coords = <<>> THEN Panicked
  ELSE IF FirstRing(coords) = <<>> THEN Panicked
  ELSE Finish(SumsOf(FirstRing(coords)))

----------------------------------------------------------------------------
(* The inputs: rings of up to three vertices on the integer grid           *)
(* 0..MaxCoord, open and closed; the quadrilaterals on the corners of the  *)
(* square of test_square; the rings of the tests; closed triangles on      *)
(* points with the coordinate 0.1, which no f64 holds exactly; and         *)
(* polygons of no ring and of several rings.                               *)

MaxCoord == 2

\* the literals 0.1, 0.01 and 0.005 are the f64 nearest to the decimal
Tenth == FDiv(FromInt(1), FromInt(10))
Hundredth == FDiv(FromInt(1), FromInt(100))
FiveThousandths == FDiv(FromInt(5), FromInt(1000))
Pt(x, y) == <<FromInt(x), FromInt(y)>>

Grid == {Pt(x, y) : x \in 0..MaxCoord, y \in 0..MaxCoord}

Close(vs) == vs \o <<vs[1]>>

OpenGridRings ==
  {<<a>> : a \in Grid} \cup {<<a, b>> : a \in Grid, b \in Grid}
    \cup {<<a, b, c>> : a \in Grid, b \in Grid, c \in Grid}

GridRings == {<<>>} \cup OpenGridRings \cup {Close(vs) : vs \in OpenGridRings}

\* test_square, line 80, and the other orders of its corners
Corners == {Pt(0, 0), Pt(0, 2), Pt(2, 2), Pt(2, 0)}

CornerRings ==
  {Close(q) : q \in {t \in Corners \X Corners \X Corners \X Corners :
                        Cardinality({t[1], t[2], t[3], t[4]}) = 4}}

\* lines 73, 80, 87 and 94
SmallSquare ==
  Close(<<Pt(0, 0), <<Hundredth, Zero>>, <<Hundredth, Hundredth>>, <<Zero, Hundredth>>>>)
Square == Close(<<Pt(0, 0), Pt(0, 2), Pt(2, 2), Pt(2, 0)>>)
Triangle90 == Close(<<Pt(0, 0), Pt(0, 2), Pt(2, 0)>>)
Triangle135 == Close(<<Pt(1, 0), Pt(0, 2), Pt(2, 0)>>)

TestRings == {SmallSquare, Square, Triangle90, Triangle135}

FracPoints == {<<Zero, Tenth>>, <<Tenth, Zero>>, <<Tenth, Tenth>>, <<One, Tenth>>}

FracRings == {Close(<<a, b, c>>) : a \in FracPoints, b \in FracPoints, c \in FracPoints}

Rings == GridRings \cup CornerRings \cup TestRings \cup FracRings

\* holes and further outer rings
ExtraRings == {<<<<>>>>, <<SmallSquare, Square>>}

FirstOfSeveral == TestRings \cup {<<>>, <<Pt(1, 1)>>, Close(<<Pt(0, 0), Pt(1, 0), Pt(0, 1)>>)}

Polygons ==
  {<<>>} \cup {<<r>> : r \in Rings}
    \cup {<<r>> \o x : r \in FirstOfSeveral, x \in ExtraRings}

\* the polygons of one closed ring, and those that make the call panic
ClosedPolygons ==
  {<<>>, <<<<>>>>} \cup {<<r>> : r \in {q \in Rings : Len(q) >= 2 /\ q[1] = q[Len(q)]}}

----------------------------------------------------------------------------
(* centroid() step by step                                                 *)

VARIABLES coordinates, pc, ring, prev, area, x_sum, y_sum, result

vars == <<coordinates, pc, ring, prev, area, x_sum, y_sum, result>>

NoPoint == <<Zero, Zero>>

InitWith(polygons) ==
  /\ coordinates \in polygons
  /\ pc = "call"
  /\ ring = <<>>
  /\ prev = NoPoint
  /\ area = Zero
  /\ x_sum = Zero
  /\ y_sum = Zero
  /\ result = Running

\* line 36: first() of no ring is None, and unwrap() panics
UnwrapPanic ==
  /\ pc = "call"
  /\ coordinates = <<>>
  /\ pc' = "panicked"
  /\ result' = Panicked
  /\ UNCHANGED <<coordinates, ring, prev, area, x_sum, y_sum>>

\* line 37: remove(0) of an empty vector panics
RemovePanic ==
  /\ pc = "call"
  /\ coordinates # <<>>
  /\ FirstRing(coordinates) = <<>>
  /\ pc' = "panicked"
  /\ result' = Panicked
  /\ UNCHANGED <<coordinates, ring, prev, area, x_sum, y_sum>>

\* lines 32 to 37
Enter ==
  /\ pc = "call"
  /\ coordinates # <<>>
  /\ FirstRing(coordinates) # <<>>
  /\ LET acc == InitAcc(FirstRing(coordinates))
     IN  /\ area' = acc.area
         /\ x_sum' = acc.x_sum
         /\ y_sum' = acc.y_sum
         /\ prev' = acc.prev
  /\ ring' = LoopInput(FirstRing(coordinates))
  /\ pc' = "loop"
  /\ UNCHANGED <<coordinates, result>>

\* lines 39 to 48, one coord
Iterate ==
  /\ pc = "loop"
  /\ ring # <<>>
  /\ LET acc == Step([area |-> area, x_sum |-> x_sum, y_sum |-> y_sum,
                      prev |-> prev], Head(ring))
     IN  /\ area' = acc.area
         /\ x_sum' = acc.x_sum
         /\ y_sum' = acc.y_sum
         /\ prev' = acc.prev
  /\ ring' = Tail(ring)
  /\ UNCHANGED <<coordinates, pc, result>>

\* line 50
Return ==
  /\ pc = "loop"
  /\ ring = <<>>
  /\ result' = Finish([area |-> area, x_sum |-> x_sum, y_sum |-> y_sum,
                        prev |-> prev])
  /\ pc' = "done"
  /\ UNCHANGED <<coordinates, ring, prev, area, x_sum, y_sum>>

Next == UnwrapPanic \/ RemovePanic \/ Enter \/ Iterate \/ Return

Init == InitWith(Polygons)

Spec == Init /\ [][Next]_vars

\* centroid() of the polygons of one closed ring
InitClosed == InitWith(ClosedPolygons)

SpecClosed == InitClosed /\ [][Next]_vars

----------------------------------------------------------------------------
(* What the properties are stated with.                                    *)

Done == pc = "done"
Finished == pc \in {"done", "panicked"}

\* the ring centroid() was called with (of a polygon that has one)
Ring0 == FirstRing(coordinates)

Closed(r) == Len(r) >= 2 /\ r[1] = r[Len(r)]

IsInt(a) == a.k = "fin" /\ (a.s = 0 \/ a.e >= 0)

\* every coordinate is an integer (of the model: small, so that the products
\* and the sums of the loop are integers below 2^53, which f64 holds exactly)
IntRing(r) == \A i \in 1..Len(r) : IsInt(r[i][1]) /\ IsInt(r[i][2])

PointFinite(p) == IsFinite(p[1]) /\ IsFinite(p[2])

\* == of two points
PointEq(p, q) == FEq(p[1], q[1]) /\ FEq(p[2], q[2])

XSub(a, b) == XAdd(a, FNeg(b))

Half == Exact(1, <<1>>, -1)
Six == FromInt(6)

\* The standard centroid in exact arithmetic: cross_i = x_i * y_(i+1) -
\* x_(i+1) * y_i, s the sum of cross_i, mx the sum of (x_i + x_(i+1)) * cross_i
\* and my the sum of (y_i + y_(i+1)) * cross_i, over the edges i..Len(r)-1
RECURSIVE Moments(_, _)
Moments(r, i) ==
  IF i >= Len(r) THEN [s |-> Zero, mx |-> Zero, my |-> Zero]
  ELSE LET rest  == Moments(r, i + 1)
           cross == XSub(XMul(r[i][1], r[i + 1][2]), XMul(r[i + 1][1], r[i][2]))
       IN  [s  |-> XAdd(cross, rest.s),
            mx |-> XAdd(XMul(XAdd(r[i][1], r[i + 1][1]), cross), rest.mx),
            my |-> XAdd(XMul(XAdd(r[i][2], r[i + 1][2]), cross), rest.my)]

\* 6 * A with A = s / 2, for the moments m
SixA(m) == XMul(Six, XMul(Half, m.s))

\* non-zero signed area
NonZeroArea(r) == Moments(r, 1).s # Zero

\* the f64 nearest to the standard centroid
StandardCentroid(r) ==
  LET m == Moments(r, 1)
      a == SixA(m)
  IN  <<DivRound(m.mx, a), DivRound(m.my, a)>>

\* all the points of r on one line (or all the same point)
Collinear(r) ==
  \A i, j \in 1..Len(r) :
    XSub(XMul(XSub(r[i][1], r[1][1]), XSub(r[j][2], r[1][2])),
         XMul(XSub(r[i][2], r[1][2]), XSub(r[j][1], r[1][1]))) = Zero

\* the sums as the pairs (prev, cur) of r give them in f64, added in order
RECURSIVE PairSums(_, _)
PairSums(r, n) ==
  IF n <= 1 THEN [area |-> Zero, x_sum |-> Zero, y_sum |-> Zero]
  ELSE LET before == PairSums(r, n - 1)
           cur    == r[n]
           pre    == r[n - 1]
           f      == FSub(FMul(cur[2], pre[1]), FMul(pre[2], cur[1]))
       IN  [area  |-> FAdd(before.area, FMul(Three, f)),
            x_sum |-> FAdd(before.x_sum, FMul(FAdd(cur[1], pre[1]), f)),
            y_sum |-> FAdd(before.y_sum, FMul(FAdd(cur[2], pre[2]), f))]

Reverse(r) == [i \in 1..Len(r) |-> r[Len(r) + 1 - i]]

Translate(r, d) == [i \in 1..Len(r) |-> <<FAdd(r[i][1], d[1]), FAdd(r[i][2], d[2])>>]

Scale(r, c) == [i \in 1..Len(r) |-> <<FMul(r[i][1], c), FMul(r[i][2], c)>>]

----------------------------------------------------------------------------
(* C1 *)

\* the accumulators and the result are the sums and the quotients of the
\* pairs (prev, cur)
C1_AsSummed ==
  LET ps == PairSums(Ring0, Len(Ring0))
  IN  /\ area = ps.area
      /\ x_sum = ps.x_sum
      /\ y_sum = ps.y_sum
      /\ result = Returned(<<FDiv(ps.x_sum, ps.area), FDiv(ps.y_sum, ps.area)>>)

\* the squares of test_small_square and test_square give their centre
C1_Squares ==
  /\ Ring0 = SmallSquare => result.p = <<FiveThousandths, FiveThousandths>>
  /\ Ring0 = Square => result.p = <<One, One>>

\* C1 as claimed: for every closed ring of non-zero signed area, centroid()
\* returns (xSum / area, ySum / area) of the sums over the pairs (prev, cur),
\* and that point is the standard area-weighted centroid of the polygon
C1_AsClaimed ==
  (Done /\ Closed(Ring0) /\ NonZeroArea(Ring0)) =>
    /\ C1_AsSummed
    /\ result.p = StandardCentroid(Ring0)
    /\ C1_Squares

\* C1 as amended: for every closed ring of non-zero signed area, centroid()
\* returns (xSum / area, ySum / area) of the f64 sums over the pairs
\* (prev, cur); when the coordinates are integers (small enough for the sums
\* to be exact) that point is the f64 nearest to the standard area-weighted
\* centroid, and the squares of the tests give their centre
C1_Centroid ==
  (Done /\ Closed(Ring0) /\ NonZeroArea(Ring0)) =>
    /\ C1_AsSummed
    /\ IntRing(Ring0) => result.p = StandardCentroid(Ring0)
    /\ C1_Squares

\* a closed ring of integers with a centroid that no f64 holds exactly
C1_Witness ==
  /\ Done
  /\ Ring0 = Triangle135
  /\ result.p = <<One, FDiv(Two, Three)>>

----------------------------------------------------------------------------
(* C2 *)

\* C2 as claimed: for every closed ring of non-zero signed area, the centroid
\* of the reversed ring == the centroid of the ring
C2_AsClaimed ==
  (Done /\ Closed(Ring0) /\ NonZeroArea(Ring0)) =>
    PointEq(Centroid(<<Reverse(Ring0)>>).p, result.p)

\* C2 as amended: for every closed ring of non-zero signed area whose
\* coordinates are integers (small enough for the sums to be exact), the
\* reversed ring has the sums x_sum, y_sum and area with the sign flipped,
\* and its centroid == the centroid of the ring
C2_Winding ==
  (Done /\ Closed(Ring0) /\ NonZeroArea(Ring0) /\ IntRing(Ring0)) =>
    /\ LET reversed == SumsOf(Reverse(Ring0))
       IN  /\ reversed.area = FNeg(area)
           /\ reversed.x_sum = FNeg(x_sum)
           /\ reversed.y_sum = FNeg(y_sum)
           /\ PointEq(Finish(reversed).p, result.p)

\* a closed ring of integers that is not its own reverse, with its centroid
C2_Witness ==
  /\ Done
  /\ Ring0 = Close(<<Pt(0, 0), Pt(1, 0), Pt(1, 1)>>)
  /\ area = FromInt(3)
  /\ SumsOf(Reverse(Ring0)).area = FromInt(-3)
  /\ PointFinite(result.p)

----------------------------------------------------------------------------
(* C3 *)

Shifts == {<<FromInt(1), Zero>>, <<FromInt(-1), FromInt(2)>>}

\* C3 as claimed: translating every vertex of a closed ring of non-zero area
\* by (dx, dy) translates the centroid by exactly (dx, dy)
C3_AsClaimed ==
  (Done /\ Closed(Ring0) /\ NonZeroArea(Ring0)) =>
    \A d \in Shifts :
      PointEq(Centroid(<<Translate(Ring0, d)>>).p,
              <<FAdd(result.p[1], d[1]), FAdd(result.p[2], d[2])>>)

\* C3 as amended: for a closed ring of non-zero area and a vector (dx, dy),
\* all of integers (small enough for the sums to be exact), the centroid of
\* the translated ring is the f64 nearest to the exact centroid of the ring
\* plus (dx, dy)
C3_Translation ==
  (Done /\ Closed(Ring0) /\ NonZeroArea(Ring0) /\ IntRing(Ring0)) =>
    \A d \in Shifts :
      LET m == Moments(Ring0, 1)
          a == SixA(m)
      IN  Centroid(<<Translate(Ring0, d)>>).p =
            <<DivRound(XAdd(m.mx, XMul(d[1], a)), a),
              DivRound(XAdd(m.my, XMul(d[2], a)), a)>>

\* the triangle of test_triangle_90 moved by (1, 0): its centroid is the f64
\* nearest to 5/3, which 2/3 + 1 in f64 is not
C3_Witness ==
  /\ Done
  /\ Ring0 = Triangle90
  /\ Centroid(<<Translate(Ring0, <<FromInt(1), Zero>>)>>).p[1] = FDiv(FromInt(5), Three)
  /\ FAdd(result.p[1], One) # FDiv(FromInt(5), Three)

----------------------------------------------------------------------------
(* C4 *)

PowerOfTwoScales == {FromInt(-2), Half}
Scales == PowerOfTwoScales \cup {Three, FromInt(5)}

\* C4 as claimed: scaling every vertex of a closed ring of non-zero area by a
\* non-zero s scales the centroid by s
C4_AsClaimed ==
  (Done /\ Closed(Ring0) /\ NonZeroArea(Ring0)) =>
    \A c \in Scales :
      PointEq(Centroid(<<Scale(Ring0, c)>>).p,
              <<FMul(result.p[1], c), FMul(result.p[2], c)>>)

\* C4 as amended: scaling every vertex of a closed ring of non-zero area by a
\* power of two s, of either sign, scales x_sum and y_sum by s^3, area by s^2
\* and the centroid by s
C4_Scale ==
  (Done /\ Closed(Ring0) /\ NonZeroArea(Ring0)) =>
    \A c \in PowerOfTwoScales :
      /\ LET scaled == SumsOf(Scale(Ring0, c))
         IN  /\ scaled.area = FMul(area, FMul(c, c))
             /\ scaled.x_sum = FMul(x_sum, FMul(c, FMul(c, c)))
             /\ scaled.y_sum = FMul(y_sum, FMul(c, FMul(c, c)))
             /\ PointEq(Finish(scaled).p,
                        <<FMul(result.p[1], c), FMul(result.p[2], c)>>)

\* a closed ring with the coordinate 0.1, scaled by -2
C4_Witness ==
  /\ Done
  /\ Ring0 = Close(<<<<Zero, Tenth>>, <<Tenth, Zero>>, <<Tenth, Tenth>>>>)
  /\ PointFinite(result.p)
  /\ Centroid(<<Scale(Ring0, FromInt(-2))>>).p[1] = FMul(result.p[1], FromInt(-2))
  /\ result.p[1] # Zero

----------------------------------------------------------------------------
(* C6 *)

\* C6: centroid() reads only the first ring: whatever rings follow it, a
\* polygon with the same first ring has the same outcome
C6_FirstRingOnly ==
  (Finished /\ coordinates # <<>>) =>
    \A x \in ExtraRings \cup {<<>>} : Centroid(<<Ring0>> \o x) = result

\* a polygon of three rings, its first the triangle of test_triangle_135
C6_Witness ==
  /\ Done
  /\ Len(coordinates) = 3
  /\ Ring0 = Triangle135
  /\ coordinates[2] = SmallSquare
  /\ coordinates[3] = Square
  /\ result.p = <<One, FDiv(Two, Three)>>

----------------------------------------------------------------------------
(* C7 *)

\* C7 as claimed: for every closed ring of zero enclosed area (the vertices
\* on one line, or all the same point) the accumulated area is exactly 0
\* and the division by it gives a point that is not finite, not an error
C7_AsClaimed ==
  (Done /\ Closed(Ring0) /\ Collinear(Ring0)) =>
    /\ area = Zero
    /\ result.st = "point"
    /\ ~IsFinite(result.p[1])
    /\ ~IsFinite(result.p[2])

\* C7 as amended: the same for every such ring whose coordinates are integers
\* (small enough for the sums to be exact)
C7_ZeroArea ==
  (Done /\ Closed(Ring0) /\ Collinear(Ring0) /\ IntRing(Ring0)) =>
    /\ area = Zero
    /\ result.st = "point"
    /\ ~IsFinite(result.p[1])
    /\ ~IsFinite(result.p[2])

\* three points of a line that does not pass through the origin
C7_Witness ==
  /\ Done
  /\ Ring0 = Close(<<Pt(0, 2), Pt(2, 0), Pt(1, 1)>>)
  /\ area = Zero
  /\ result = Returned(<<NaN, NaN>>)

----------------------------------------------------------------------------
(* C8 *)

IsTriangle(r) == Len(r) = 4 /\ Closed(r) /\ ~Collinear(r)

\* the mean of the three vertices, in f64
Mean3(r) ==
  <<FDiv(FAdd(FAdd(r[1][1], r[2][1]), r[3][1]), Three),
    FDiv(FAdd(FAdd(r[1][2], r[2][2]), r[3][2]), Three)>>

\* the triangles of test_triangle_90 and test_triangle_135
C8_Tests ==
  /\ Ring0 = Triangle90 => result.p = <<FDiv(Two, Three), FDiv(Two, Three)>>
  /\ Ring0 = Triangle135 => result.p = <<One, FDiv(Two, Three)>>

\* C8 as claimed: for every closed triangle ring [a, b, c, a] with a, b, c
\* not on one line, centroid() returns the mean of a, b and c
C8_AsClaimed ==
  (Done /\ IsTriangle(Ring0)) => (result.p = Mean3(Ring0) /\ C8_Tests)

\* C8 as amended: the same for every such triangle whose coordinates are
\* integers (small enough for the sums to be exact)
C8_Triangle ==
  (Done /\ IsTriangle(Ring0) /\ IntRing(Ring0)) =>
    (result.p = Mean3(Ring0) /\ C8_Tests)

\* the triangle of test_triangle_90, with its centroid
C8_Witness ==
  /\ Done
  /\ Ring0 = Triangle90
  /\ Len(coordinates) = 1
  /\ result.p = <<FDiv(Two, Three), FDiv(Two, Three)>>

----------------------------------------------------------------------------
(* C9 *)

Open(r) == Len(r) >= 2 /\ r[1] # r[Len(r)]

\* f of the pair (last point, first point), the edge that would close r
ClosingCross(r) == Cross(r[Len(r)], r[1])

----------------------------------------------------------------------------
(* C10 *)

FewerThanTwo == coordinates = <<>> \/ Len(Ring0) < 2

\* C10: with no ring or an empty first ring the call panics; with a first
\* ring of one point the loop is skipped and the point (0/0, 0/0) returned;
\* in none of these cases is the point finite
C10_FewPoints ==
  /\ (pc \in {"loop", "done"}) => (coordinates # <<>> /\ Ring0 # <<>>)
  /\ (Finished /\ FewerThanTwo) =>
       /\ ~(result.st = "point" /\ (IsFinite(result.p[1]) \/ IsFinite(result.p[2])))
       /\ (coordinates = <<>> \/ Ring0 = <<>>) <=> (pc = "panicked" /\ result = Panicked)
       /\ (coordinates # <<>> /\ Len(Ring0) = 1) <=>
            (pc = "done" /\ area = Zero /\ x_sum = Zero /\ y_sum = Zero
               /\ result = Returned(<<NaN, NaN>>))

\* a ring of one point, returned as (NaN, NaN)
C10_Witness ==
  /\ Done
  /\ coordinates = <<<<Pt(1, 1)>>>>
  /\ result = Returned(<<NaN, NaN>>)

====
